---- MODULE Spec2Model ----
(***************************************************************************)
(* Model of the government-ID verification pipeline:                       *)
(*   src/src/services/verificationService.ts  (VerificationService)        *)
(*   src/src/pages/Index.tsx                  (the page that drives it)    *)
(*                                                                         *)
(* Numbers: a confidence is a fixed-point value in units of 1/One, so that *)
(* 1.0 is One.  Engine inputs are taken on the percent grid (2 units), on  *)
(* which the halving of the aggregator is exact.                           *)
(* Strings are TLA+ strings; a character is a string of length 1.          *)
(***************************************************************************)
EXTENDS Integers, Sequences, FiniteSets, TLC

\* 1.0 in confidence units: two units to the percent
One == 2 * 100

\* a percentage (0..100, as the engines report it) in confidence units
Percent(p) == (p * One) \div 100

(***************************************************************************)
(* String primitives of the JavaScript runtime used by extractTextLabels   *)
(***************************************************************************)
CharAt(s, i) == SubSeq(s, i, i)

UpperChars == "ABCDEFGHIJKLMNOPQRSTUVWXYZ"
LowerChars == "abcdefghijklmnopqrstuvwxyz"

\* the characters of the modelled texts, in code-unit order (the order the
\* default Array.prototype.sort compares by)
AsciiChars == " ./0123456789:ABCDEFGHIJKLMNOPQRSTUVWXYZabcdefghijklmnopqrstuvwxyz"

\* code unit of a character, relative to the space character; control
\* characters (tab, carriage return, line feed) sort before every printable one
CharCode(c) ==
  IF \E i \in 1..Len(AsciiChars) : CharAt(AsciiChars, i) = c
  THEN CHOOSE i \in 1..Len(AsciiChars) : CharAt(AsciiChars, i) = c
  ELSE 0

\* String.prototype.toLowerCase, one character
LowerChar(c) ==
  IF \E i \in 1..Len(UpperChars) : CharAt(UpperChars, i) = c
  THEN CharAt(LowerChars, CHOOSE i \in 1..Len(UpperChars) : CharAt(UpperChars, i) = c)
  ELSE c

RECURSIVE ToLowerCase(_)
ToLowerCase(s) ==
  IF Len(s) = 0 THEN "" ELSE LowerChar(CharAt(s, 1)) \o ToLowerCase(SubSeq(s, 2, Len(s)))

\* white space as String.prototype.trim and the regex class \s see it
IsSpace(c) == c \in {" ", "\t", "\r", "\n"}

\* a line terminator, which the regex dot does not match
IsLineTerminator(c) == c \in {"\n", "\r"}

RECURSIVE TrimStart(_)
TrimStart(s) ==
  IF Len(s) > 0 /\ IsSpace(CharAt(s, 1)) THEN TrimStart(SubSeq(s, 2, Len(s))) ELSE s

RECURSIVE TrimEnd(_)
TrimEnd(s) ==
  IF Len(s) > 0 /\ IsSpace(CharAt(s, Len(s))) THEN TrimEnd(SubSeq(s, 1, Len(s) - 1)) ELSE s

\* String.prototype.trim
Trim(s) == TrimEnd(TrimStart(s))

\* s has p at position i (1-based)
HasAt(s, p, i) == i >= 1 /\ i + Len(p) - 1 <= Len(s) /\ SubSeq(s, i, i + Len(p) - 1) = p

\* String.prototype.includes
Includes(s, p) == \E i \in 1..(Len(s) + 1) : HasAt(s, p, i)

\* String.prototype.split on the line feed: the pieces between line feeds, empty ones kept
RECURSIVE SplitFrom(_, _, _)
SplitFrom(s, i, cur) ==
  IF i > Len(s) THEN <<cur>>
  ELSE IF CharAt(s, i) = "\n" THEN <<cur>> \o SplitFrom(s, i + 1, "")
  ELSE SplitFrom(s, i + 1, cur \o CharAt(s, i))

SplitLines(s) == SplitFrom(s, 1, "")

\* a < b in the code-unit order of the default Array.prototype.sort
RECURSIVE StrLess(_, _)
StrLess(a, b) ==
  IF Len(b) = 0 THEN FALSE
  ELSE IF Len(a) = 0 THEN TRUE
  ELSE IF CharCode(CharAt(a, 1)) # CharCode(CharAt(b, 1))
       THEN CharCode(CharAt(a, 1)) < CharCode(CharAt(b, 1))
  ELSE StrLess(SubSeq(a, 2, Len(a)), SubSeq(b, 2, Len(b)))

(***************************************************************************)
(* extractTextLabels: the label dictionary and the line scan               *)
(***************************************************************************)
labelPatterns == <<
  [label |-> "Name",          patterns |-> <<"name", "first name", "last name", "full name">>],
  [label |-> "Date of Birth", patterns |-> <<"date of birth", "dob", "birth date", "born">>],
  [label |-> "ID Number",     patterns |-> <<"id number", "license number", "document number", "dl">>],
  [label |-> "Address",       patterns |-> <<"address", "street", "residence">>],
  [label |-> "City",          patterns |-> <<"city">>],
  [label |-> "State",         patterns |-> <<"state", "province">>],
  [label |-> "ZIP Code",      patterns |-> <<"zip", "postal code", "zip code">>],
  [label |-> "Sex",           patterns |-> <<"sex", "gender">>],
  [label |-> "Height",        patterns |-> <<"height", "ht">>],
  [label |-> "Weight",        patterns |-> <<"weight", "wt">>],
  [label |-> "Issue Date",    patterns |-> <<"issue date", "issued", "iss">>],
  [label |-> "Expiration",    patterns |-> <<"expiration date", "expires", "exp">>],
  [label |-> "Class",         patterns |-> <<"class", "license class">> ] >>

Labels == {labelPatterns[i].label : i \in 1..Len(labelPatterns)}

\* lines = extractedText.split(newline).filter(line => line.trim().length > 0)
RECURSIVE FilterNonEmpty(_)
FilterNonEmpty(ls) ==
  IF Len(ls) = 0 THEN <<>>
  ELSE IF Len(Trim(Head(ls))) > 0 THEN <<Head(ls)>> \o FilterNonEmpty(Tail(ls))
  ELSE FilterNonEmpty(Tail(ls))

NonEmptyLines(text) == FilterNonEmpty(SplitLines(text))

\* the first pattern of the list that lowerLine includes (0: none); the scan of
\* a label stops at it (the break of the inner loop)
FirstPattern(lowerLine, patterns) ==
  IF \E i \in 1..Len(patterns) : Includes(lowerLine, patterns[i])
  THEN CHOOSE i \in 1..Len(patterns) :
         /\ Includes(lowerLine, patterns[i])
         /\ \A j \in 1..(i - 1) : ~Includes(lowerLine, patterns[j])
  ELSE 0

\* number of characters of the class [:\s] from position j of line on
RECURSIVE SepRun(_, _)
SepRun(line, j) ==
  IF j <= Len(line) /\ (CharAt(line, j) = ":" \/ IsSpace(CharAt(line, j)))
  THEN 1 + SepRun(line, j + 1) ELSE 0

\* number of characters the regex dot accepts from position j of line on
RECURSIVE DotRun(_, _)
DotRun(line, j) ==
  IF j <= Len(line) /\ ~IsLineTerminator(CharAt(line, j))
  THEN 1 + DotRun(line, j + 1) ELSE 0

\* the separator lengths k for which (.+) can match after pattern at i and k
\* separator characters
SepChoices(line, pattern, i) ==
  {k \in 0..SepRun(line, i + Len(pattern)) : DotRun(line, i + Len(pattern) + k) > 0}

\* the start positions at which the whole regex matches, case-insensitively
MatchStarts(line, pattern) ==
  LET lower == ToLowerCase(line) IN
  {i \in 1..Len(line) : /\ HasAt(lower, pattern, i)
                        /\ SepChoices(line, pattern, i) # {}}

Max(S) == CHOOSE x \in S : \A y \in S : y <= x
Min(S) == CHOOSE x \in S : \A y \in S : x <= y

\* line.match(new RegExp(pattern + "[:\\s]*(.+)", "i")): the leftmost match,
\* the separator class greedy (it gives characters back only when (.+) would
\* otherwise be empty), the capture greedy.  [matched, group]
RegexMatch(line, pattern) ==
  LET starts == MatchStarts(line, pattern) IN
  IF starts = {} THEN [matched |-> FALSE, group |-> ""]
  ELSE LET i == Min(starts)
           k == Max(SepChoices(line, pattern, i))
           from == i + Len(pattern) + k
       IN [matched |-> TRUE,
           group |-> SubSeq(line, from, from + DotRun(line, from) - 1)]

\* lines.indexOf(line): the first position holding an equal string (1-based)
IndexOf(lines, line) == Min({i \in 1..Len(lines) : lines[i] = line})

\* extractedData[label] = value
SetData(data, label, value) == [l \in (DOMAIN data) \cup {label} |->
                                  IF l = label THEN value ELSE data[l]]

\* the body of the pattern hit for one label on one line: the label is pushed
\* and a value is looked for inline, then on the next line
RecordHit(lines, line, entry, pattern, acc) ==
  LET m == RegexMatch(line, pattern)
      found == Append(acc.foundLabels, entry.label)
  IN IF m.matched /\ Len(m.group) > 0
     THEN [foundLabels |-> found,
           extractedData |-> SetData(acc.extractedData, entry.label, Trim(m.group))]
     ELSE LET lineIndex == IndexOf(lines, line) IN
          IF lineIndex < Len(lines) /\ Len(Trim(lines[lineIndex + 1])) > 0
          THEN [foundLabels |-> found,
                extractedData |-> SetData(acc.extractedData, entry.label,
                                          Trim(lines[lineIndex + 1]))]
          ELSE [foundLabels |-> found, extractedData |-> acc.extractedData]

\* for (const {label, patterns} of labelPatterns), entries e..13, on line k
RECURSIVE ScanLabels(_, _, _, _, _)
ScanLabels(lines, k, lowerLine, e, acc) ==
  IF e > Len(labelPatterns) THEN acc
  ELSE LET entry == labelPatterns[e]
           p == FirstPattern(lowerLine, entry.patterns)
       IN ScanLabels(lines, k, lowerLine, e + 1,
                     IF p = 0 THEN acc
                     ELSE RecordHit(lines, lines[k], entry, entry.patterns[p], acc))

\* for (const line of lines), lines k..last
RECURSIVE ScanLines(_, _, _)
ScanLines(lines, k, acc) ==
  IF k > Len(lines) THEN acc
  ELSE ScanLines(lines, k + 1,
                 ScanLabels(lines, k, Trim(ToLowerCase(lines[k])), 1, acc))

\* the found labels with their repetitions kept
Dedupe_keepsAll(seq, seen) == seq

\* [...new Set(foundLabels)]: first occurrences, in insertion order
RECURSIVE Dedupe(_, _)
Dedupe(seq, seen) ==
  IF Len(seq) = 0 THEN <<>>
  ELSE IF Head(seq) \in seen THEN Dedupe(Tail(seq), seen)
  ELSE <<Head(seq)>> \o Dedupe(Tail(seq), seen \cup {Head(seq)})

\* insertion of x into a sequence sorted by StrLess
RECURSIVE InsertSorted(_, _)
InsertSorted(x, seq) ==
  IF Len(seq) = 0 THEN <<x>>
  ELSE IF StrLess(x, Head(seq)) THEN <<x>> \o seq
  ELSE <<Head(seq)>> \o InsertSorted(x, Tail(seq))

\* the labels left in the order they were found
SortStrings_unsorted(seq) == seq

\* Array.prototype.sort with the default comparison
RECURSIVE SortStrings(_)
SortStrings(seq) ==
  IF Len(seq) = 0 THEN <<>> ELSE InsertSorted(Head(seq), SortStrings(Tail(seq)))

\* const foundLabels = [], const extractedData = {}
EmptyScan == [foundLabels |-> <<>>, extractedData |-> <<>>]

\* Math.min(data.confidence / 100, 1)
TextConfidence(ocrConfidence) ==
  IF Percent(ocrConfidence) < One THEN Percent(ocrConfidence) ELSE One

\* the try branch of extractTextLabels on the data the OCR engine resolved with
ExtractFields(data) ==
  LET scan == ScanLines(NonEmptyLines(data.text), 1, EmptyScan) IN
  [extractedLabels |-> SortStrings(Dedupe(scan.foundLabels, {})),
   extractedData   |-> scan.extractedData,
   confidence      |-> TextConfidence(data.confidence),
   details         |-> "OcrReport"]

\* the catch branch of extractTextLabels
ExtractionFailed ==
  [extractedLabels |-> <<>>,
   extractedData   |-> <<>>,
   confidence      |-> 0,
   details         |-> "OcrFailed"]

\* an extractor that reports what it scanned, with confidence 0, when the
\* response has a text but no confidence
ExtractTextLabels_lenient(response) ==
  IF response.rejects \/ ~response.hasData \/ ~response.hasText THEN ExtractionFailed
  ELSE ExtractFields([text |-> response.text, confidence |-> 0])

\* extractTextLabels on what recognize settled with: the await throws when it
\* rejects, the destructuring leaves data undefined when there is none and
\* data.text throws, split throws on a text that is undefined, and toFixed
\* throws on a confidence that is undefined; every throw lands in the catch
ExtractTextLabels(response) ==
  IF response.rejects \/ ~response.hasData \/ ~response.hasText \/ ~response.hasConfidence
  THEN ExtractionFailed
  ELSE ExtractFields([text |-> response.text, confidence |-> response.confidence])

(***************************************************************************)
(* The files a user can upload, and what the browser and the two engines   *)
(* make of each: both engines are deterministic functions of the bytes.    *)
(***************************************************************************)
NoFile == "none"

\* candidates for the Government ID slot
IdFiles == {"card", "photo", "smudged", "torn", "glare", "faded", "blurry", "corrupt"}

\* candidates for the Reference Template slot
RefFiles == {"layout", "inverse", "oversize", "blank", "corrupt"}

\* img.onload fires (TRUE) or img.onerror fires (FALSE)
Decodes(file) == file # "corrupt"

\* natural size of the decoded image (a vector image may declare no area)
ImageSize(file) ==
  CASE file = "card"     -> [width |-> 1600, height |-> 1000]
    [] file = "photo"    -> [width |-> 640,  height |-> 480]
    [] file = "smudged"  -> [width |-> 800,  height |-> 500]
    [] file = "blurry"   -> [width |-> 800,  height |-> 500]
    [] file = "torn"     -> [width |-> 800,  height |-> 500]
    [] file = "glare"    -> [width |-> 800,  height |-> 500]
    [] file = "faded"    -> [width |-> 800,  height |-> 500]
    [] file = "layout"   -> [width |-> 400,  height |-> 250]
    [] file = "inverse"  -> [width |-> 400,  height |-> 250]
    [] file = "oversize" -> [width |-> 900,  height |-> 1800]
    [] file = "blank"    -> [width |-> 0,    height |-> 0]
    [] OTHER             -> [width |-> 0,    height |-> 0]

\* edgeStrength / (data.length / 4) of the file on the analysis square, in
\* confidence units
EdgeRatio(file) ==
  CASE file = "blurry" -> Percent(2)
    [] file = "photo"  -> Percent(10)
    [] OTHER           -> Percent(25)

\* a response of worker.recognize: it rejects, or resolves with an object
\* that has a data field or not, whose data has a text and a confidence or not
Response(shape, text, confidence) ==
  [rejects       |-> shape = "rejects",
   hasData       |-> shape \in {"complete", "noText", "noConfidence"},
   hasText       |-> shape \in {"complete", "noConfidence"},
   hasConfidence |-> shape \in {"complete", "noText"},
   text          |-> text,
   confidence    |-> confidence]

\* what worker.recognize settles with on a live worker
Recognize(file) ==
  CASE file = "card"  -> Response("complete", "Name: John Smith\nDate of Birth\n01/01/1990", 87)
    [] file = "photo" -> Response("complete", "0123 456\n", 40)
    [] file = "torn"  -> Response("noData", "", 0)
    [] file = "glare" -> Response("noText", "", 12)
    [] file = "faded" -> Response("noConfidence", "Name: John Smith", 0)
    [] OTHER          -> Response("rejects", "", 0)

\* minMaxLoc(result).maxVal after cv.matchTemplate(TM_CCOEFF_NORMED), in
\* confidence units: the best normalized correlation of the two gray images
Correlation(source, template) ==
  CASE template = "layout"  /\ source = "card"    -> Percent(90)
    [] template = "layout"  /\ source = "photo"   -> Percent(30)
    [] template = "layout"  /\ source = "smudged" -> Percent(55)
    [] template = "layout"  /\ source = "faded"   -> Percent(70)
    [] template = "inverse" /\ source = "card"    -> 0 - Percent(50)
    [] template = "inverse" /\ source = "photo"   -> 0 - Percent(100)
    [] OTHER                                      -> Percent(10)

(***************************************************************************)
(* validateImageQuality                                                    *)
(***************************************************************************)
\* const analysisSize = 400: the side of the square the image is drawn on
analysisSize == 400

\* const threshold = 30, on the luminance scale 0..255
threshold == 30

\* data.length / 4: the pixels of the analysis square
Pixels == analysisSize * analysisSize

\* the gray level (red = green = blue) of image data at column x, row y; an
\* image is flat, or alternates the levels lo and hi in square cells
\* (checkerboard) or in vertical bands (columns), the first band cut to
\* cell - phase pixels
Gray(image, x, y) ==
  LET band == (x + image.phase) \div image.cell
      row == y \div image.cell
      parity == CASE image.kind = "checkerboard" -> (band + row) % 2
                  [] image.kind = "columns"      -> band % 2
                  [] OTHER                       -> 0
  IN IF parity = 0 THEN image.lo ELSE image.hi

\* data[i] * 0.299 + data[i + 1] * 0.587 + data[i + 2] * 0.114, in thousandths
Luminance(r, g, b) == 299 * r + 587 * g + 114 * b

\* the luminance of pixel p of the data, which is row after row
LuminanceAt(image, p) ==
  LET v == Gray(image, p % analysisSize, p \div analysisSize) IN Luminance(v, v, v)

Abs(n) == IF n < 0 THEN 0 - n ELSE n

\* the loop for (i = 0; i < data.length - 4; i += 4): every pixel but the
\* last is compared with the one stored after it
EdgeStrength(image) ==
  Cardinality({p \in 0..(Pixels - 2) :
                 Abs(LuminanceAt(image, p) - LuminanceAt(image, p + 1)) > threshold * 1000})

\* a gate that also throws at an edge ratio of exactly 0.1
LowQuality_inclusive(edgeStrength) == edgeStrength * 10 <= Pixels

\* edgeRatio = edgeStrength / (data.length / 4); if (edgeRatio < 0.1) throw
LowQuality(edgeStrength) == edgeStrength * 10 < Pixels

\* a gate that never throws
QualityRejects_never(file) == FALSE

\* if (edgeRatio < 0.1) throw
QualityRejects(file) == EdgeRatio(file) * 10 < One

(***************************************************************************)
(* performTemplateMatching                                                 *)
(***************************************************************************)
maxSize == 800

\* the resize of one image: the canvas size (canvas dimensions are integers,
\* and a dimension that is not a number is 0)
ResizedSize(size) ==
  IF size.width = 0 \/ size.height = 0
  THEN [width |-> IF size.width < maxSize THEN size.width ELSE maxSize, height |-> 0]
  ELSE
  LET w0 == IF size.width < maxSize THEN size.width ELSE maxSize
      h0 == (w0 * size.height) \div size.width
  IN IF h0 > maxSize
     THEN [width |-> (maxSize * size.width) \div size.height, height |-> maxSize]
     ELSE [width |-> w0, height |-> h0]

\* cv.imread throws on a canvas without area (it has no image data to read)
ImreadThrows(file) ==
  LET c == ResizedSize(ImageSize(file)) IN c.width = 0 \/ c.height = 0

\* cv.matchTemplate throws when the template exceeds the source in a dimension
MatchTemplateThrows(source, template) ==
  LET s == ResizedSize(ImageSize(source))
      t == ResizedSize(ImageSize(template))
  IN t.width > s.width \/ t.height > s.height

\* the mats created up to the matchTemplate call: cv.imread twice, new cv.Mat thrice
CreatedMats == {"srcMat", "templateMat", "srcGray", "templateGray", "result"}

\* the mats the try branch deletes after minMaxLoc
DeletedOnSuccess == {"srcMat", "templateMat", "srcGray", "templateGray", "result"}

\* the mats the catch branch deletes
DeletedOnFailure == {}

\* a threshold that a score of exactly 0.3 meets
IsMatch_inclusive(confidence) == confidence * 10 >= 3 * One

\* const isMatch = confidence > 0.3
IsMatch(confidence) == confidence * 10 > 3 * One

\* the catch branch: the degraded result, with the mats live when it was entered
MatchingFailed(liveMats) ==
  [isMatch |-> FALSE, confidence |-> 0, details |-> "MatchFailed",
   liveMats |-> liveMats \ DeletedOnFailure]

\* a catch branch that reports the score of the pair all the same
PerformTemplateMatching_keepsScore(source, template) ==
  IF ImreadThrows(source) \/ ImreadThrows(template) \/ MatchTemplateThrows(source, template)
  THEN [isMatch |-> FALSE, confidence |-> Correlation(source, template),
        details |-> "MatchFailed", liveMats |-> {}]
  ELSE LET confidence == Correlation(source, template) IN
       [isMatch |-> IsMatch(confidence), confidence |-> confidence,
        details |-> "MatchReport", liveMats |-> CreatedMats \ DeletedOnSuccess]

\* the matcher on two decoded images: its result, and the mats it leaves live
PerformTemplateMatching(source, template) ==
  IF ImreadThrows(source) THEN MatchingFailed({})
  ELSE IF ImreadThrows(template) THEN MatchingFailed({"srcMat"})
  ELSE IF MatchTemplateThrows(source, template) THEN MatchingFailed(CreatedMats)
  ELSE LET confidence == Correlation(source, template) IN
       [isMatch |-> IsMatch(confidence), confidence |-> confidence,
        details |-> "MatchReport", liveMats |-> CreatedMats \ DeletedOnSuccess]

(***************************************************************************)
(* verifyDocument: the aggregation and the progress notifications          *)
(***************************************************************************)
\* the verdict taken from the template match alone
Overall_matchOnly(templateResult, textResult) ==
  [isValid    |-> templateResult.isMatch,
   confidence |-> (templateResult.confidence + textResult.confidence) \div 2]

\* the two confidences added and not halved
Overall_sum(templateResult, textResult) ==
  [isValid    |-> templateResult.isMatch /\ Len(textResult.extractedLabels) > 0,
   confidence |-> templateResult.confidence + textResult.confidence]

\* const overall = { isValid: ..., confidence: ... }
Overall(templateResult, textResult) ==
  [isValid    |-> templateResult.isMatch /\ Len(textResult.extractedLabels) > 0,
   confidence |-> (templateResult.confidence + textResult.confidence) \div 2]

\* the notifications of matching and extraction exchanged
ProgressCheckpoints_swapped == <<5, 10, 60, 30, 90, 100>>

\* the second argument of the six onProgress calls, in program order
ProgressCheckpoints == <<5, 10, 30, 60, 90, 100>>

\* the first argument of the six onProgress calls
ProgressStages == <<"Validating image quality...", "Loading images...",
                    "Performing template matching...", "Extracting text labels...",
                    "Finalizing verification...", "Verification complete">>

\* a stage is called / has returned, as an entry of the run's trace
Begin(trace, stage) == Append(trace, "call " \o stage)
End(trace, stage) == Append(trace, "return " \o stage)

\* the third argument of verifyDocument: supplied or not, and the invocation
\* at which the function supplied throws (0: it never throws)
NoCallback == [supplied |-> FALSE, throwsAt |-> 0]

\* the closure handleVerification passes: two setState calls, which do not throw
PageCallback == [supplied |-> TRUE, throwsAt |-> 0]

\* the run throws: the catch of verifyDocument rethrows, the promise rejects
Fails(run, error) == [run EXCEPT !.pc = "done", !.outcome = "failed", !.error = error]

\* the statements after a throw are not executed
Thrown(run) == run.outcome = "failed"

\* onProgress?.(stage, percent), the i-th call site: nothing without a
\* callback; else the callback takes the notification, and what it throws is
\* thrown inside the try of verifyDocument
Notify(run, i) ==
  IF Thrown(run) \/ ~run.callback.supplied THEN run
  ELSE LET notified ==
             [run EXCEPT !.progress = Append(@, ProgressCheckpoints[i]),
                         !.messages = Append(@, ProgressStages[i]),
                         !.trace = Append(@, "progress " \o ToString(ProgressCheckpoints[i]))]
       IN IF run.callback.throwsAt = i THEN Fails(notified, "CallbackError")
          ELSE notified

Call(run, stage) == IF Thrown(run) THEN run ELSE [run EXCEPT !.trace = Begin(@, stage)]
Return(run, stage) == IF Thrown(run) THEN run ELSE [run EXCEPT !.trace = End(@, stage)]

\* the call suspends in an await, to resume at pc
Suspend(run, pc) == IF Thrown(run) THEN run ELSE [run EXCEPT !.pc = pc]

(***************************************************************************)
(* State                                                                   *)
(***************************************************************************)
\* effect executions of the page (each calls initialize) the model follows
MaxEffects == 2

\* verification runs the model follows
MaxRuns == 2

VARIABLES
  isOpenCVReady,        \* VerificationService.isOpenCVReady
  tesseractWorker,      \* VerificationService.tesseractWorker: 0 is null, else a worker id
  windowCv,             \* window.cv: "absent", "loading" (no cv.Mat yet) or "ready"
  onRuntimeInitialized, \* the initialize call whose callback window.cv holds (0: none)
  workers,              \* the OCR workers created so far: "live", "terminating", "terminated"
  mounted,              \* the Index page: "no", "yes", "gone"
  initPc,               \* per initialize call: where it is suspended
  cleanups,             \* the cleanup calls: [pc, worker]
  idImage,              \* Index state
  referenceImage,
  processingState,
  verificationResult,   \* 0 is null, else the run whose result object is stored
  isServiceReady,
  timers,               \* pending setTimeout callbacks of initializeService
  runs,                 \* the verifyDocument calls
  exText,               \* field extractor on its own: the recognized text
  exOut,                \* and the result returned for it
  qImage,               \* quality gate on its own: the image data on the analysis square
  qOut                  \* and its edge count and verdict

serviceVars == <<isOpenCVReady, tesseractWorker>>
engineVars == <<windowCv, onRuntimeInitialized, workers>>
pageVars == <<idImage, referenceImage, processingState, verificationResult,
              isServiceReady, timers>>
unitVars == <<exText, exOut, qImage, qOut>>
vars == <<isOpenCVReady, tesseractWorker, windowCv, onRuntimeInitialized, workers,
          mounted, initPc, cleanups, idImage, referenceImage, processingState,
          verificationResult, isServiceReady, timers, runs, exText, exOut, qImage, qOut>>

NoTemplateResult ==
  [isMatch |-> FALSE, confidence |-> 0, details |-> "none", liveMats |-> {}]
NoTextResult ==
  [extractedLabels |-> <<>>, extractedData |-> <<>>, confidence |-> 0, details |-> "none"]
NoOverall == [isValid |-> FALSE, confidence |-> 0]

\* a verifyDocument call that has not been made
NoRun ==
  [pc |-> "none", idFile |-> NoFile, refFile |-> NoFile, callback |-> NoCallback,
   trace |-> <<>>,
   progress |-> <<>>, messages |-> <<>>, calls |-> {}, worker |-> 0,
   workerState |-> "none", tornDown |-> FALSE, outcome |-> "none", error |-> "none",
   templateMatch |-> NoTemplateResult, textExtraction |-> NoTextResult,
   overall |-> NoOverall]

InitApplication ==
  /\ isOpenCVReady = FALSE
  /\ tesseractWorker = 0
  /\ windowCv = "absent"
  /\ onRuntimeInitialized = 0
  /\ workers = <<>>
  /\ mounted = "no"
  /\ initPc = [k \in 1..MaxEffects |-> "none"]
  /\ cleanups = <<>>
  /\ idImage = NoFile
  /\ referenceImage = NoFile
  /\ processingState = "idle"
  /\ verificationResult = 0
  /\ isServiceReady = FALSE
  /\ timers = 0
  /\ runs = [r \in 1..MaxRuns |-> NoRun]

\* no image data looked at, no verdict given
NoImage == [kind |-> "none", cell |-> 1, phase |-> 0, lo |-> 0, hi |-> 0]
NoVerdict == [edgeStrength |-> 0, verdict |-> "none"]

Init ==
  /\ InitApplication
  /\ exText = ""
  /\ exOut = NoTextResult
  /\ qImage = NoImage
  /\ qOut = NoVerdict

(***************************************************************************)
(* initialize and cleanup, and the effect of the page that calls them      *)
(***************************************************************************)
\* setState calls of a page that is gone do nothing
PageSet(current, value) == IF mounted = "yes" THEN value ELSE current

\* initializeService after `await verificationService.initialize()` returned
InitResolved ==
  /\ isServiceReady' = PageSet(isServiceReady, TRUE)
  /\ processingState' = PageSet(processingState, "success")
  /\ timers' = timers + 1

\* initializeTesseract of call k, entered with the worker field as it is
\* now; without a worker it suspends in createWorker
EnterTesseract(k) ==
  IF tesseractWorker = 0
  THEN /\ initPc' = [initPc EXCEPT ![k] = "tesseract"]
       /\ UNCHANGED <<isServiceReady, timers>>
       /\ processingState' = processingState
  ELSE /\ initPc' = [initPc EXCEPT ![k] = "resolved"]
       /\ InitResolved

\* initializeService of effect k up to its first suspension: the state is set
\* to processing, initializeOpenCV either finds the runtime or appends a script
StartInit(k) ==
  IF windowCv = "ready"
  THEN /\ isOpenCVReady' = TRUE
       /\ IF tesseractWorker = 0
          THEN /\ initPc' = [initPc EXCEPT ![k] = "tesseract"]
               /\ processingState' = "processing"
               /\ UNCHANGED <<isServiceReady, timers>>
          ELSE /\ initPc' = [initPc EXCEPT ![k] = "resolved"]
               /\ isServiceReady' = TRUE
               /\ processingState' = "success"
               /\ timers' = timers + 1
  ELSE /\ initPc' = [initPc EXCEPT ![k] = "script"]
       /\ processingState' = "processing"
       /\ UNCHANGED <<isOpenCVReady, isServiceReady, timers>>

\* cleanup() up to its suspension in terminate()
StartCleanup ==
  IF tesseractWorker # 0
  THEN /\ workers' = [workers EXCEPT ![tesseractWorker] =
                        IF @ = "live" THEN "terminating" ELSE @]
       /\ cleanups' = Append(cleanups, [pc |-> "terminating", worker |-> tesseractWorker])
  ELSE /\ cleanups' = Append(cleanups, [pc |-> "done", worker |-> 0])
       /\ UNCHANGED workers

EffectsRun == Cardinality({k \in 1..MaxEffects : initPc[k] # "none"})

\* the page mounts: useEffect runs initializeService
Mount ==
  /\ mounted = "no"
  /\ mounted' = "yes"
  /\ StartInit(1)
  /\ UNCHANGED <<tesseractWorker, engineVars, cleanups, idImage, referenceImage,
                 verificationResult, runs, unitVars>>

\* the effect runs again (its dependency changed, or the development double
\* invocation): the returned cleanup, then initializeService, in one commit
EffectRerun ==
  /\ mounted = "yes"
  /\ EffectsRun < MaxEffects
  /\ StartCleanup
  /\ StartInit(EffectsRun + 1)
  /\ UNCHANGED <<tesseractWorker, windowCv, onRuntimeInitialized, mounted, idImage,
                 referenceImage, verificationResult, runs, unitVars>>

\* the page unmounts: the returned cleanup runs
Unmount ==
  /\ mounted = "yes"
  /\ mounted' = "gone"
  /\ StartCleanup
  /\ UNCHANGED <<serviceVars, windowCv, onRuntimeInitialized, initPc, pageVars,
                 runs, unitVars>>

\* script.onload of call k; the script has run and has defined window.cv or not
ScriptLoaded(k, definesCv) ==
  /\ initPc[k] = "script"
  /\ windowCv' = IF definesCv /\ windowCv = "absent" THEN "loading" ELSE windowCv
  /\ IF windowCv' # "absent"
     THEN /\ onRuntimeInitialized' = k
          /\ initPc' = [initPc EXCEPT ![k] = "runtime"]
     ELSE /\ initPc' = [initPc EXCEPT ![k] = "hung"]
          /\ UNCHANGED onRuntimeInitialized
  /\ UNCHANGED <<serviceVars, workers, mounted, cleanups, pageVars, runs, unitVars>>

\* the script fails to load; nothing listens for that
ScriptFailed(k) ==
  /\ initPc[k] = "script"
  /\ initPc' = [initPc EXCEPT ![k] = "hung"]
  /\ UNCHANGED <<serviceVars, engineVars, mounted, cleanups, pageVars, runs, unitVars>>

\* the correlation runtime finishes starting and calls the callback it holds
RuntimeInitialized ==
  /\ windowCv = "loading"
  /\ windowCv' = "ready"
  /\ IF onRuntimeInitialized # 0 /\ initPc[onRuntimeInitialized] = "runtime"
     THEN /\ isOpenCVReady' = TRUE
          /\ EnterTesseract(onRuntimeInitialized)
     ELSE UNCHANGED <<isOpenCVReady, initPc, isServiceReady, processingState, timers>>
  /\ UNCHANGED <<tesseractWorker, onRuntimeInitialized, workers, mounted, cleanups,
                 idImage, referenceImage, verificationResult, runs, unitVars>>

\* createWorker of call k resolves
WorkerCreated(k) ==
  /\ initPc[k] = "tesseract"
  /\ workers' = Append(workers, "live")
  /\ tesseractWorker' = Len(workers) + 1
  /\ initPc' = [initPc EXCEPT ![k] = "resolved"]
  /\ InitResolved
  /\ UNCHANGED <<isOpenCVReady, windowCv, onRuntimeInitialized, mounted, cleanups,
                 idImage, referenceImage, verificationResult, runs, unitVars>>

\* createWorker of call k rejects: initialize rejects, the page shows the error
WorkerFailed(k) ==
  /\ initPc[k] = "tesseract"
  /\ initPc' = [initPc EXCEPT ![k] = "rejected"]
  /\ processingState' = PageSet(processingState, "error")
  /\ UNCHANGED <<serviceVars, engineVars, mounted, cleanups, idImage, referenceImage,
                 verificationResult, isServiceReady, timers, runs, unitVars>>

\* terminate() of cleanup call c settles: the worker field is cleared
TerminateSettled(c) ==
  /\ c \in 1..Len(cleanups)
  /\ cleanups[c].pc = "terminating"
  /\ workers' = [workers EXCEPT ![cleanups[c].worker] = "terminated"]
  /\ tesseractWorker' = 0
  /\ cleanups' = [cleanups EXCEPT ![c].pc = "done"]
  /\ UNCHANGED <<isOpenCVReady, windowCv, onRuntimeInitialized, mounted, initPc,
                 pageVars, runs, unitVars>>

\* the timer set after a successful initialize fires
TimerFires ==
  /\ timers > 0
  /\ timers' = timers - 1
  /\ processingState' = PageSet(processingState, "idle")
  /\ UNCHANGED <<serviceVars, engineVars, mounted, initPc, cleanups, idImage,
                 referenceImage, verificationResult, isServiceReady, runs, unitVars>>

(***************************************************************************)
(* The page: uploads, reset                                                *)
(***************************************************************************)
\* onImageUpload of the Government ID slot (NoFile: the remove button)
SelectIdImage(file) ==
  /\ mounted = "yes"
  /\ idImage # file
  /\ idImage' = file
  /\ UNCHANGED <<serviceVars, engineVars, mounted, initPc, cleanups, referenceImage,
                 processingState, verificationResult, isServiceReady, timers, runs,
                 unitVars>>

\* onImageUpload of the Reference Template slot
SelectReferenceImage(file) ==
  /\ mounted = "yes"
  /\ referenceImage # file
  /\ referenceImage' = file
  /\ UNCHANGED <<serviceVars, engineVars, mounted, initPc, cleanups, idImage,
                 processingState, verificationResult, isServiceReady, timers, runs,
                 unitVars>>

\* the Reset button, disabled while processingState is processing
ResetVerification ==
  /\ mounted = "yes"
  /\ processingState # "processing"
  /\ idImage' = NoFile
  /\ referenceImage' = NoFile
  /\ verificationResult' = 0
  /\ processingState' = "idle"
  /\ UNCHANGED <<serviceVars, engineVars, mounted, initPc, cleanups, isServiceReady,
                 timers, runs, unitVars>>

(***************************************************************************)
(* verifyDocument, one call = one run, and handleVerification around it    *)
(***************************************************************************)
Running(r) == runs[r].pc \in {"quality", "loadId", "loadRef", "ocr"}
Settled(r) == runs[r].pc = "done"
RunsStarted == Cardinality({r \in 1..MaxRuns : runs[r].pc # "none"})

\* const canVerify = idImage && referenceImage && isServiceReady &&
\*                   processingState !== 'processing'
canVerify ==
  /\ idImage # NoFile
  /\ referenceImage # NoFile
  /\ isServiceReady
  /\ processingState # "processing"

\* from `Finalizing verification` to the return of the result
Completed(run, textResult) ==
  LET extracted == [Return(run, "extractTextLabels") EXCEPT !.textExtraction = textResult]
      complete == Notify(Notify(extracted, 5), 6)
  IN IF Thrown(complete) THEN complete
     ELSE [complete EXCEPT
             !.pc = "done",
             !.outcome = "result",
             !.overall = Overall(run.templateMatch, textResult)]

\* an extractor whose failure escapes to verifyDocument, which rethrows it
Completes_rethrow(run, textResult) ==
  IF textResult.details = "OcrFailed" THEN Fails(run, "OcrError")
  ELSE Completed(run, textResult)

\* a worker that serves one recognition only: once a run has returned, the
\* extraction of every later run degrades
Completes_singleUseWorker(run, textResult) ==
  IF \E r \in 1..MaxRuns : runs[r].outcome = "result"
  THEN Completed(run, ExtractionFailed)
  ELSE Completed(run, textResult)

\* `const textResult = await this.extractTextLabels(idImageFile)` has
\* returned textResult (it catches whatever its body throws): the run goes on
Completes(run, textResult) == Completed(run, textResult)

\* a catch that reports the failed run as a warning
PageAfterRun_warnsOnThrow(r, run) ==
  IF run.outcome = "result"
  THEN /\ verificationResult' = PageSet(verificationResult, r)
       /\ processingState' =
            PageSet(processingState, IF run.overall.isValid THEN "success" ELSE "warning")
  ELSE /\ processingState' = PageSet(processingState, "warning")
       /\ UNCHANGED verificationResult

\* handleVerification after the await: the try continuation or the catch
PageAfterRun(r, run) ==
  IF run.outcome = "result"
  THEN /\ verificationResult' = PageSet(verificationResult, r)
       /\ processingState' =
            PageSet(processingState, IF run.overall.isValid THEN "success" ELSE "warning")
  ELSE /\ processingState' = PageSet(processingState, "error")
       /\ UNCHANGED verificationResult

\* handleVerification (the Start button, enabled by canVerify) with callback
\* as the third argument of verifyDocument, up to the first suspension of
\* verifyDocument, or through its catch when verifyDocument throws at once
StartVerificationWith(callback) ==
  /\ mounted = "yes"
  /\ canVerify
  /\ RunsStarted < MaxRuns
  /\ LET r == RunsStarted + 1
         new == [NoRun EXCEPT !.idFile = idImage, !.refFile = referenceImage,
                              !.callback = callback]
         next == IF ~isOpenCVReady \/ tesseractWorker = 0
                 THEN Fails(new, "NotInitialized")
                 ELSE Suspend(Call(Notify(new, 1), "validateImageQuality"), "quality")
     IN /\ runs' = [runs EXCEPT ![r] = next]
        /\ verificationResult' = 0
        /\ processingState' = IF next.pc = "done" THEN "error" ELSE "processing"
  /\ UNCHANGED <<serviceVars, engineVars, mounted, initPc, cleanups, idImage,
                 referenceImage, isServiceReady, timers, unitVars>>

\* the Start button of the page
StartVerification == StartVerificationWith(PageCallback)

\* validateImageQuality: its image load settles, the edge ratio is judged,
\* and on acceptance the first loadImageFromFile of verifyDocument is started
QualityChecked(r) ==
  /\ runs[r].pc = "quality"
  /\ LET run == runs[r]
         next == IF ~Decodes(run.idFile) THEN Fails(run, "DecodeError")
                 ELSE IF QualityRejects(run.idFile) THEN Fails(run, "LowQualityImage")
                 ELSE Suspend(Call(Notify(Return(run, "validateImageQuality"), 2),
                                   "loadImageFromFile(id)"), "loadId")
     IN /\ runs' = [runs EXCEPT ![r] = next]
        /\ IF next.pc = "done" THEN PageAfterRun(r, next)
           ELSE UNCHANGED <<verificationResult, processingState>>
  /\ UNCHANGED <<serviceVars, engineVars, mounted, initPc, cleanups, idImage,
                 referenceImage, isServiceReady, timers, unitVars>>

\* the ID image load settles; the reference image load is started
IdLoaded(r) ==
  /\ runs[r].pc = "loadId"
  /\ LET run == runs[r]
         next == IF ~Decodes(run.idFile) THEN Fails(run, "DecodeError")
                 ELSE Suspend(Call(Return(run, "loadImageFromFile(id)"),
                                   "loadImageFromFile(reference)"), "loadRef")
     IN /\ runs' = [runs EXCEPT ![r] = next]
        /\ IF next.pc = "done" THEN PageAfterRun(r, next)
           ELSE UNCHANGED <<verificationResult, processingState>>
  /\ UNCHANGED <<serviceVars, engineVars, mounted, initPc, cleanups, idImage,
                 referenceImage, isServiceReady, timers, unitVars>>

\* the run through performTemplateMatching, which does not suspend
Matched(run) ==
  LET before == Call(Notify(Return(run, "loadImageFromFile(reference)"), 3),
                     "performTemplateMatching")
      after == IF Thrown(before) THEN before
               ELSE [before EXCEPT
                  !.templateMatch = PerformTemplateMatching(run.idFile, run.refFile),
                  !.calls = IF ImreadThrows(run.idFile) \/ ImreadThrows(run.refFile)
                            THEN @ ELSE @ \cup {"matchTemplate"}]
  IN Call(Notify(Return(after, "performTemplateMatching"), 4), "extractTextLabels")

\* the reference image load settles; template matching runs; extractTextLabels
\* calls recognize on the worker field, which throws at once when it is null
RefLoaded(r) ==
  /\ runs[r].pc = "loadRef"
  /\ LET run == runs[r]
         next == IF ~Decodes(run.refFile) THEN Fails(run, "DecodeError")
                 ELSE IF Thrown(Matched(run)) THEN Matched(run)
                 ELSE IF tesseractWorker = 0
                      THEN Completes([Matched(run) EXCEPT !.tornDown = TRUE,
                                                          !.workerState = "absent"],
                                     ExtractionFailed)
                      ELSE [Matched(run) EXCEPT
                              !.pc = "ocr",
                              !.worker = tesseractWorker,
                              !.workerState = workers[tesseractWorker],
                              !.calls = @ \cup {"recognize"}]
     IN /\ runs' = [runs EXCEPT ![r] = next]
        /\ IF next.pc = "done" THEN PageAfterRun(r, next)
           ELSE UNCHANGED <<verificationResult, processingState>>
  /\ UNCHANGED <<serviceVars, engineVars, mounted, initPc, cleanups, idImage,
                 referenceImage, isServiceReady, timers, unitVars>>

\* the extraction of every ID file the OCR engine reads
ExtractionOf == [file \in IdFiles |-> ExtractTextLabels(Recognize(file))]

\* recognize settles: on a live worker as the engine decides for the file; on
\* a worker being terminated it may also reject
OcrSettled(r, rejected) ==
  /\ runs[r].pc = "ocr"
  /\ rejected => workers[runs[r].worker] # "live"
  /\ LET run == runs[r]
         next == Completes([run EXCEPT !.tornDown = rejected],
                           IF rejected THEN ExtractionFailed
                           ELSE ExtractionOf[run.idFile])
     IN /\ runs' = [runs EXCEPT ![r] = next]
        /\ PageAfterRun(r, next)
  /\ UNCHANGED <<serviceVars, engineVars, mounted, initPc, cleanups, idImage,
                 referenceImage, isServiceReady, timers, unitVars>>

(***************************************************************************)
(* Specification of the application: the page, mounted once, with its      *)
(* buttons and up to MaxRuns verification runs, on the files of a session  *)
(* in which a good card, a blurred card and two templates are at hand      *)
(***************************************************************************)
SessionIdFiles == {"card", "blurry"}
SessionRefFiles == {"layout", "inverse"}

Engine ==
  \/ \E k \in 1..MaxEffects, definesCv \in BOOLEAN : ScriptLoaded(k, definesCv)
  \/ \E k \in 1..MaxEffects : ScriptFailed(k)
  \/ RuntimeInitialized
  \/ \E k \in 1..MaxEffects : WorkerCreated(k)
  \/ \E k \in 1..MaxEffects : WorkerFailed(k)
  \/ \E c \in 1..(MaxEffects + 1) : TerminateSettled(c)
  \/ TimerFires

Pipeline ==
  \/ \E r \in 1..MaxRuns : QualityChecked(r)
  \/ \E r \in 1..MaxRuns : IdLoaded(r)
  \/ \E r \in 1..MaxRuns : RefLoaded(r)
  \/ \E r \in 1..MaxRuns, rejected \in BOOLEAN : OcrSettled(r, rejected)

Next ==
  \/ Mount
  \/ Unmount
  \/ Engine
  \/ \E file \in SessionIdFiles \cup {NoFile} : SelectIdImage(file)
  \/ \E file \in SessionRefFiles \cup {NoFile} : SelectReferenceImage(file)
  \/ ResetVerification
  \/ StartVerification
  \/ Pipeline

Spec == Init /\ [][Next]_vars

(***************************************************************************)
(* The same session when the effect of the page may run again (up to       *)
(* MaxEffects times in all), so that initialize and cleanup calls overlap  *)
(***************************************************************************)
NextStrictMode == Next \/ EffectRerun

SpecStrictMode == Init /\ [][NextStrictMode]_vars

(***************************************************************************)
(* Specification of initialization on its own: the effect of the page runs *)
(* up to MaxEffects times and the page unmounts, while the browser settles *)
(* every script load (onload, or an error nothing listens for), the        *)
(* correlation runtime, once its script has defined it, finishes starting, *)
(* and every createWorker call settles                                     *)
(***************************************************************************)
NextInitialize ==
  \/ Mount
  \/ EffectRerun
  \/ Unmount
  \/ Engine

ScriptSettles(k) == ScriptFailed(k) \/ \E definesCv \in BOOLEAN : ScriptLoaded(k, definesCv)
CreateWorkerSettles(k) == WorkerCreated(k) \/ WorkerFailed(k)

CallbacksFair ==
  /\ \A k \in 1..MaxEffects : WF_vars(ScriptSettles(k))
  /\ WF_vars(RuntimeInitialized)
  /\ \A k \in 1..MaxEffects : WF_vars(CreateWorkerSettles(k))
  /\ \A c \in 1..(MaxEffects + 1) : WF_vars(TerminateSettled(c))
  /\ WF_vars(TimerFires)

SpecInitialize == Init /\ [][NextInitialize]_vars /\ CallbacksFair

(***************************************************************************)
(* Specification of one verification: the first run of a session, on every *)
(* combination of the files                                                *)
(***************************************************************************)
FirstVerification == RunsStarted = 0 /\ StartVerification

NextPipeline ==
  \/ Mount
  \/ Unmount
  \/ Engine
  \/ \E file \in IdFiles \cup {NoFile} : SelectIdImage(file)
  \/ \E file \in RefFiles \cup {NoFile} : SelectReferenceImage(file)
  \/ ResetVerification
  \/ FirstVerification
  \/ Pipeline

SpecPipeline == Init /\ [][NextPipeline]_vars

(***************************************************************************)
(* Specification of verifyDocument under its callers: the session of Spec  *)
(* where each run is given no callback, the closure of the page, or a      *)
(* function that throws at one of its invocations                          *)
(***************************************************************************)
\* the invocations at which a throwing callback throws: the first and the last
ThrowPoints == {1, Len(ProgressCheckpoints)}

Callbacks ==
  {NoCallback, PageCallback} \cup {[supplied |-> TRUE, throwsAt |-> k] : k \in ThrowPoints}

NextCallback ==
  \/ Mount
  \/ Unmount
  \/ Engine
  \/ \E file \in SessionIdFiles \cup {NoFile} : SelectIdImage(file)
  \/ \E file \in SessionRefFiles \cup {NoFile} : SelectReferenceImage(file)
  \/ \E callback \in Callbacks : StartVerificationWith(callback)
  \/ Pipeline

SpecCallback == Init /\ [][NextCallback]_vars

(***************************************************************************)
(* Specification of the field extractor on its own: a recognized text of   *)
(* up to MaxLines lines and an OCR confidence go through the try branch of *)
(* extractTextLabels                                                       *)
(***************************************************************************)
MaxLines == 3

LineFragments == {"Name: John Smith", "Date of Birth", "01/01/1990", "Name:",
                  "  ", "Sex: F  State NY"}

\* the texts of exactly n lines
RECURSIVE TextsOf(_)
TextsOf(n) ==
  IF n = 1 THEN LineFragments
  ELSE {t \o "\n" \o l : t \in TextsOf(n - 1), l \in LineFragments}

Texts == UNION {TextsOf(n) : n \in 1..MaxLines}

\* data.confidence, in percent
OcrConfidences == {0, 87, 100}

InitExtract ==
  /\ InitApplication
  /\ exText \in Texts
  /\ exOut = NoTextResult
  /\ qImage = NoImage
  /\ qOut = NoVerdict

\* recognize resolved with {text: exText, confidence: c}
Extract(c) ==
  /\ exOut = NoTextResult
  /\ exOut' = ExtractFields([text |-> exText, confidence |-> c])
  /\ UNCHANGED <<serviceVars, engineVars, mounted, initPc, cleanups, pageVars, runs,
                 exText, qImage, qOut>>

NextExtract == \E c \in OcrConfidences : Extract(c)

SpecExtract == InitExtract /\ [][NextExtract]_vars

(***************************************************************************)
(* Specification of the quality gate on its own: image data on the         *)
(* analysis square goes through the edge count and the comparison          *)
(***************************************************************************)
\* the largest cell or band, in pixels, of the patterned images
MaxCell == 16

Pattern(kind, cell, phase, lo, hi) ==
  [kind |-> kind, cell |-> cell, phase |-> phase, lo |-> lo, hi |-> hi]

\* flat images; black and white checkerboards and bands of every cell size;
\* bands shifted by half of the ten-pixel period; and fine patterns of two
\* grays whose luminances differ by less and by more than the threshold
Images ==
  {Pattern("flat", 1, 0, v, v) : v \in {0, 128, 255}}
  \cup {Pattern(k, c, 0, 0, 255) : k \in {"checkerboard", "columns"}, c \in 1..MaxCell}
  \cup {Pattern("columns", c, 5, 0, 255) : c \in 6..MaxCell}
  \cup {Pattern(k, c, 0, 100, hi) : k \in {"checkerboard", "columns"}, c \in 1..2,
                                    hi \in {120, 140}}

InitQuality ==
  /\ InitApplication
  /\ exText = ""
  /\ exOut = NoTextResult
  /\ qImage \in Images
  /\ qOut = NoVerdict

\* validateImageQuality from getImageData on: it throws or returns
ValidateImageQuality ==
  /\ qOut = NoVerdict
  /\ LET edgeStrength == EdgeStrength(qImage) IN
     qOut' = [edgeStrength |-> edgeStrength,
              verdict |-> IF LowQuality(edgeStrength) THEN "LowQualityImage"
                          ELSE "accepted"]
  /\ UNCHANGED <<serviceVars, engineVars, mounted, initPc, cleanups, pageVars, runs,
                 exText, exOut, qImage>>

NextQuality == ValidateImageQuality

SpecQuality == InitQuality /\ [][NextQuality]_vars

(***************************************************************************)
(* Properties                                                              *)
(***************************************************************************)
RunIds == 1..MaxRuns
Returned(r) == runs[r].outcome = "result"
Threw(r) == runs[r].outcome = "failed"

IsPrefix(a, b) == Len(a) <= Len(b) /\ SubSeq(b, 1, Len(a)) = a

\* C1: in every result verifyDocument returns, overall.isValid is true exactly
\* when templateMatch.isMatch is true and extractedLabels is not empty
C1_ValidIffMatchAndLabels ==
  \A r \in RunIds : Returned(r) =>
    (runs[r].overall.isValid <=>
       (runs[r].templateMatch.isMatch /\ runs[r].textExtraction.extractedLabels # <<>>))

\* a returned result whose template matched but whose label list is empty, so
\* that it is not valid
C1_Witness ==
  \E r \in RunIds :
    /\ Returned(r)
    /\ runs[r].templateMatch.isMatch
    /\ runs[r].textExtraction.extractedLabels = <<>>
    /\ ~runs[r].overall.isValid

\* C2: in every result verifyDocument returns, overall.confidence is the
\* unweighted mean of the two confidences of that result, degraded stages
\* (confidence 0) included
C2_ConfidenceIsMean ==
  \A r \in RunIds : Returned(r) =>
    2 * runs[r].overall.confidence =
      runs[r].templateMatch.confidence + runs[r].textExtraction.confidence

\* a returned result whose matcher took its degraded path while the OCR
\* confidence is positive: the mean is half the OCR confidence
C2_Witness ==
  \E r \in RunIds :
    /\ Returned(r)
    /\ runs[r].templateMatch.details = "MatchFailed"
    /\ runs[r].textExtraction.confidence > 0
    /\ 2 * runs[r].overall.confidence = runs[r].textExtraction.confidence

\* C3: every confidence of a returned result lies in [0, 1]
C3_ConfidencesInUnitInterval ==
  \A r \in RunIds : Returned(r) =>
    /\ runs[r].templateMatch.confidence \in 0..One
    /\ runs[r].textExtraction.confidence \in 0..One
    /\ runs[r].overall.confidence \in 0..One

\* C4: at most one verification run is in progress at any time
C4_AtMostOneRunInProgress ==
  Cardinality({r \in RunIds : Running(r)}) <= 1

\* the ID file passes the quality gate of the specification: its edge ratio
\* is at least 0.1
SharpEnough(file) == EdgeRatio(file) * 10 >= One

\* C5: a run on an initialized service whose two files decode and whose ID
\* file passes the quality gate, once settled, has returned a result, whatever
\* the correlation and the OCR engine did
C5_GoodInputsReturnAResult ==
  \A r \in RunIds :
    (/\ Settled(r)
     /\ runs[r].error # "NotInitialized"
     /\ Decodes(runs[r].idFile) /\ Decodes(runs[r].refFile)
     /\ SharpEnough(runs[r].idFile))
    => Returned(r)

\* a returned result in which both the matcher and the extractor degraded
\* and the verdict is negative
C5_Witness ==
  \E r \in RunIds :
    /\ Returned(r)
    /\ runs[r].templateMatch.details = "MatchFailed"
    /\ runs[r].textExtraction.details = "OcrFailed"
    /\ ~runs[r].tornDown
    /\ ~runs[r].overall.isValid

\* C6: a run whose ID file decodes and is rejected by the quality gate fails
\* without invoking matchTemplate or recognize and without a progress
\* notification above 5
C6_RejectedRunDoesNoWork ==
  \A r \in RunIds :
    (/\ runs[r].pc # "none"
     /\ runs[r].error # "NotInitialized"
     /\ Decodes(runs[r].idFile)
     /\ ~SharpEnough(runs[r].idFile))
    => /\ runs[r].pc \in {"quality", "done"}
       /\ Settled(r) => Threw(r) /\ runs[r].error = "LowQualityImage"
       /\ runs[r].calls = {}
       /\ \A i \in 1..Len(runs[r].progress) : runs[r].progress[i] <= 5

\* a run that the quality gate has failed
C6_Witness ==
  \E r \in RunIds :
    /\ Threw(r)
    /\ runs[r].error = "LowQualityImage"
    /\ runs[r].progress = <<5>>

\* the stages and notifications of a run that returns, in program order
FullTrace ==
  <<"progress 5", "call validateImageQuality", "return validateImageQuality",
    "progress 10", "call loadImageFromFile(id)", "return loadImageFromFile(id)",
    "call loadImageFromFile(reference)", "return loadImageFromFile(reference)",
    "progress 30", "call performTemplateMatching", "return performTemplateMatching",
    "progress 60", "call extractTextLabels", "return extractTextLabels",
    "progress 90", "progress 100">>

\* C7: the notifications of a run are a prefix of 5, 10, 30, 60, 90, 100 (hence
\* non-decreasing), the whole sequence when the run returns; each notification
\* precedes its stage and each stage is called after the previous one returned
C7_ProgressInOrder ==
  \A r \in RunIds :
    /\ IsPrefix(runs[r].progress, <<5, 10, 30, 60, 90, 100>>)
    /\ Returned(r) => runs[r].progress = <<5, 10, 30, 60, 90, 100>>
    /\ IsPrefix(runs[r].trace, FullTrace)
    /\ Returned(r) => runs[r].trace = FullTrace

\* a run that returned, and so went through all six notifications
C7_Witness ==
  \E r \in RunIds : Returned(r) /\ Len(runs[r].progress) = 6

\* C8: for the text of the three lines Name: John Smith / Date of Birth /
\* 01/01/1990 the extractor returns the labels Date of Birth, Name in that
\* order, Name = John Smith and Date of Birth = 01/01/1990
C8_SampleText ==
  (exText = "Name: John Smith\nDate of Birth\n01/01/1990" /\ exOut # NoTextResult)
  => /\ exOut.extractedLabels = <<"Date of Birth", "Name">>
     /\ DOMAIN exOut.extractedData = {"Name", "Date of Birth"}
     /\ exOut.extractedData["Name"] = "John Smith"
     /\ exOut.extractedData["Date of Birth"] = "01/01/1990"

\* the extractor has returned for that text
C8_Witness ==
  /\ exText = "Name: John Smith\nDate of Birth\n01/01/1990"
  /\ exOut.details = "OcrReport"

C10_NoMatLeftLive ==
  \A r \in RunIds :
    (\E i \in 1..Len(runs[r].trace) : runs[r].trace[i] = "return performTemplateMatching")
    => runs[r].templateMatch.liveMats = {}

\* the pairs of pixels the gate examines: every pixel but the last, with its
\* successor
PairsExamined == Pixels - 1

\* C11: the gate rejects exactly when the edge count over the pairs examined
\* is below 0.1, accepts at or above 0.1, and rejects every flat image
C11_RejectsBelowTenth ==
  qOut # NoVerdict =>
    /\ qOut.verdict = "LowQualityImage" <=> qOut.edgeStrength * 10 < PairsExamined
    /\ qOut.verdict = "accepted" <=> qOut.edgeStrength * 10 >= PairsExamined
    /\ qImage.kind = "flat" => qOut.verdict = "LowQualityImage"

\* an image whose edge ratio is 0.1 exactly has been accepted
C11_Witness ==
  /\ qOut.verdict = "accepted"
  /\ qOut.edgeStrength * 10 = Pixels

\* C12: a checkerboard of black and white cells, whatever the cell size,
\* passes the gate
C12_CheckerboardPasses ==
  (/\ qOut # NoVerdict
   /\ qImage.kind = "checkerboard" /\ qImage.phase = 0
   /\ qImage.lo = 0 /\ qImage.hi = 255)
  => qOut.verdict = "accepted"

\* C16: when the matcher returns on its non-failure path, isMatch is true
\* exactly when the best correlation score is strictly above 0.3, and the
\* confidence it reports is that score
C16_MatchIffAboveThreshold ==
  \A r \in RunIds : runs[r].templateMatch.details = "MatchReport" =>
    /\ runs[r].templateMatch.confidence = Correlation(runs[r].idFile, runs[r].refFile)
    /\ runs[r].templateMatch.isMatch <=> runs[r].templateMatch.confidence * 10 > 3 * One

\* the matcher has reported a score of exactly 0.3 as no match
C16_Witness ==
  \E r \in RunIds :
    /\ runs[r].templateMatch.details = "MatchReport"
    /\ runs[r].templateMatch.confidence * 10 = 3 * One
    /\ ~runs[r].templateMatch.isMatch

\* the template has no area, or exceeds the resized source in a dimension
InternalFailure(source, template) ==
  LET s == ResizedSize(ImageSize(source))
      t == ResizedSize(ImageSize(template))
  IN \/ t.width = 0 \/ t.height = 0
     \/ t.width > s.width \/ t.height > s.height

MatcherCalled(r) ==
  \E i \in 1..Len(runs[r].trace) : runs[r].trace[i] = "call performTemplateMatching"

\* C18: a matcher called on a template without area, or larger than the
\* source after the resize, returns isMatch false and confidence 0 with the
\* failure details, and the run it is part of does not fail
C18_MatcherDegrades ==
  \A r \in RunIds :
    (MatcherCalled(r) /\ InternalFailure(runs[r].idFile, runs[r].refFile))
    => /\ ~runs[r].templateMatch.isMatch
       /\ runs[r].templateMatch.confidence = 0
       /\ runs[r].templateMatch.details = "MatchFailed"
       /\ ~Threw(r)

\* runs went through the matcher with a template without area
C18_Witness ==
  \E r \in RunIds :
    /\ Returned(r)
    /\ ImageSize(runs[r].refFile).width = 0
    /\ runs[r].templateMatch.details = "MatchFailed"

\* C13: a run refused as not initialized has notified nothing and invoked no
\* stage, and recognize is only ever called on a live worker: never on the
\* null worker field, never on a worker whose terminate has been called
C13_NoRecognizeWithoutLiveWorker ==
  \A r \in RunIds :
    /\ runs[r].error = "NotInitialized" =>
         runs[r].progress = <<>> /\ runs[r].trace = <<>> /\ runs[r].calls = {}
    /\ runs[r].workerState \in {"none", "live"}

\* teardown has happened and every initialize, cleanup and run has settled
Quiescent ==
  /\ mounted = "gone"
  /\ \A k \in 1..MaxEffects : initPc[k] \in {"none", "resolved", "rejected"}
  /\ \A c \in 1..Len(cleanups) : cleanups[c].pc = "done"
  /\ \A r \in RunIds : ~Running(r)

\* C14: at most one OCR worker is ever created, and once teardown has
\* happened and all calls have settled every worker created is terminated
C14_OneWorkerTerminated ==
  /\ Len(workers) <= 1
  /\ Quiescent => \A w \in 1..Len(workers) : workers[w] = "terminated"

\* run r settles in this step, on a page that is still mounted
Settles(r) == mounted = "yes" /\ ~Settled(r) /\ Settled(r)'

C17_OutcomeIndependentOfCallback ==
  \A a, b \in RunIds :
    (/\ Settled(a) /\ Settled(b)
     /\ runs[a].idFile = runs[b].idFile /\ runs[a].refFile = runs[b].refFile
     /\ ~runs[a].tornDown /\ ~runs[b].tornDown)
    => /\ runs[a].outcome = runs[b].outcome
       /\ runs[a].error = runs[b].error
       /\ Returned(a) => /\ runs[a].templateMatch = runs[b].templateMatch
                         /\ runs[a].textExtraction = runs[b].textExtraction
                         /\ runs[a].overall = runs[b].overall

\* the OCR engine fails on the file, or answers with a response that lacks
\* the data, the text or the confidence
OcrFailsOrMalformed(file) ==
  \/ Recognize(file).rejects
  \/ ~Recognize(file).hasData
  \/ ~Recognize(file).hasText
  \/ ~Recognize(file).hasConfidence

ExtractorCalled(r) ==
  \E i \in 1..Len(runs[r].trace) : runs[r].trace[i] = "call extractTextLabels"

\* C19: a run whose extractor was called on a file the OCR engine fails on or
\* answers malformed does not fail; it returns no label, no data, confidence
\* 0 and the failure details, and its verdict is negative
C19_ExtractorDegrades ==
  \A r \in RunIds :
    (ExtractorCalled(r) /\ OcrFailsOrMalformed(runs[r].idFile))
    => /\ ~Threw(r)
       /\ Returned(r) => /\ runs[r].textExtraction.extractedLabels = <<>>
                          /\ runs[r].textExtraction.extractedData = <<>>
                          /\ runs[r].textExtraction.confidence = 0
                          /\ runs[r].textExtraction.details = "OcrFailed"
                          /\ ~runs[r].overall.isValid

\* a run has returned whose template matched and whose OCR response had a
\* text with a label in it but no confidence
C19_Witness ==
  \E r \in RunIds :
    /\ Returned(r)
    /\ runs[r].templateMatch.isMatch
    /\ Recognize(runs[r].idFile).hasText /\ ~Recognize(runs[r].idFile).hasConfidence
    /\ ~runs[r].tornDown
    /\ ~runs[r].overall.isValid

\* s is made of separator colons alone
RECURSIVE OnlyColons(_)
OnlyColons(s) == Len(s) = 0 \/ (CharAt(s, 1) = ":" /\ OnlyColons(SubSeq(s, 2, Len(s))))

\* C20: no value stored in extractedData is the empty string or consists of
\* the colon separator alone (a capture of that kind counts as empty, and the
\* next line or no entry takes its place)
C20_NoEmptyOrSeparatorValue ==
  \A label \in DOMAIN exOut.extractedData : ~OnlyColons(exOut.extractedData[label])

\* the extractor has returned for the recognized text
Extracted == exOut.details = "OcrReport"

\* the phrase of dictionary entry e that counts on a line: the first of the
\* entry that occurs in it, case-insensitively (0: the label is not on the line)
PhraseOn(line, e) == FirstPattern(ToLowerCase(line), labelPatterns[e].patterns)

\* the value the k-th non-empty line gives for entry e: the remainder captured
\* after the phrase, else the (k+1)-th non-empty line, else none
InlineCapture(lines, k, e) ==
  RegexMatch(lines[k], labelPatterns[e].patterns[PhraseOn(lines[k], e)])

GivesValue(lines, k, e) ==
  /\ PhraseOn(lines[k], e) # 0
  /\ \/ InlineCapture(lines, k, e).matched /\ Len(InlineCapture(lines, k, e).group) > 0
     \/ k < Len(lines)

ValueOfLine(lines, k, e) ==
  IF InlineCapture(lines, k, e).matched /\ Len(InlineCapture(lines, k, e).group) > 0
  THEN Trim(InlineCapture(lines, k, e).group)
  ELSE Trim(lines[k + 1])

\* C21: the value stored for a label is the one given by the last non-empty
\* line that gives one, where a line without an inline capture gives the
\* non-empty line that follows it, also when its text occurs more than once
C21_FallbackUsesFollowingLine ==
  Extracted =>
    LET lines == NonEmptyLines(exText) IN
    \A e \in 1..Len(labelPatterns) :
      LET giving == {k \in 1..Len(lines) : GivesValue(lines, k, e)}
          label == labelPatterns[e].label
      IN IF giving = {} THEN label \notin DOMAIN exOut.extractedData
         ELSE /\ label \in DOMAIN exOut.extractedData
              /\ exOut.extractedData[label] = ValueOfLine(lines, Max(giving), e)

\* position i of seq is not preceded by an equal or greater string
Ascending(seq) == \A i, j \in 1..Len(seq) : i < j => StrLess(seq[i], seq[j])

\* the labels with a phrase occurring in some of the lines
LabelsIn(lines) ==
  {labelPatterns[e].label : e \in {e \in 1..Len(labelPatterns) :
     \E k \in 1..Len(lines), i \in 1..Len(labelPatterns[e].patterns) :
       Includes(lines[k], labelPatterns[e].patterns[i])}}

\* the labels with a phrase occurring, case-insensitively, in some non-empty line
LabelsPresent(text) == LabelsIn(NonEmptyLines(ToLowerCase(text)))

\* C22: extractedLabels is strictly ascending (so duplicate-free), holds
\* exactly the labels a phrase of which occurs in some non-empty line, and
\* every key of extractedData is one of them
C22_LabelsSortedAndExact ==
  Extracted =>
    /\ Ascending(exOut.extractedLabels)
    /\ {exOut.extractedLabels[i] : i \in 1..Len(exOut.extractedLabels)} = LabelsPresent(exText)
    /\ DOMAIN exOut.extractedData \subseteq LabelsPresent(exText)

\* a text one line of which gives two labels and another line of which
\* repeats a label has been extracted: three labels, each once
C22_Witness ==
  /\ Extracted
  /\ exText = "Name: John Smith\nSex: F  State NY\nName:"
  /\ exOut.extractedLabels = <<"Name", "Sex", "State">>

\* the horizontally adjacent pairs within a row whose luminances differ by
\* more than the threshold: pixel p is not the last of its row
RowEdges(image) ==
  Cardinality({p \in 0..(Pixels - 2) :
                 /\ p % analysisSize # analysisSize - 1
                 /\ Abs(LuminanceAt(image, p) - LuminanceAt(image, p + 1)) > threshold * 1000})

\* the pairs of horizontally adjacent pixels within the rows
RowPairs == analysisSize * (analysisSize - 1)

\* C23: the edge count of the gate is the number of horizontally adjacent
\* pairs within a row that differ by more than 30 (the last pixel of a row is
\* not paired with the first of the next), and the ratio it judges is that
\* count over the number of those pairs
C23_EdgesAreRowPairs ==
  qOut # NoVerdict =>
    /\ qOut.edgeStrength = RowEdges(qImage)
    /\ qOut.verdict = "LowQualityImage" <=> RowEdges(qImage) * 10 < RowPairs

\* C24: while a run is in progress on the mounted page, processingState is
\* processing, so that the Start and Reset buttons stay disabled
C24_RunKeepsProcessingState ==
  \A r \in RunIds : (mounted = "yes" /\ Running(r)) => processingState = "processing"

\* C25: every initialize call that was made eventually resolves or rejects
C25_InitializeSettles ==
  \A k \in 1..MaxEffects :
    (initPc[k] # "none") ~> (initPc[k] \in {"resolved", "rejected"})

====
